---- MODULE Spec2Model ----
(***************************************************************************)
(* A model of manager.py: the builder that turns a list of station         *)
(* records into the parameter dictionary of a Ciw queueing network.        *)
(*                                                                         *)
(* Encodings.                                                              *)
(*  - A distribution string is the sequence of tokens s.split(' ') gives.  *)
(*  - The parsed value 'NoArrivals' is [dist |-> "NoArrivals", args |-> <<>>],*)
(*    the parsed list [dist, *args] is [dist |-> dist, args |-> args].     *)
(*  - The key 'Class %i' % n is the pair <<"Class", n>>.                     *)
(*  - A Python dict is a function; a missing key is a key outside DOMAIN.  *)
(*  - A probability is an integer number of quarters (ProbOne is 1.0):     *)
(*    quarters are exact in binary floating point, so their sums are too.  *)
(*  - A raised exception is [ok |-> FALSE, exc, msg, arg]; a returned value*)
(*    is [ok |-> TRUE, val].                                               *)
(*  - Matrices are 1-based: M[i][j] here is entry [i-1][j-1] in Python.    *)
(***************************************************************************)
EXTENDS Integers, Sequences, FiniteSets, TLC

VARIABLES
    pc,             \* "loop": at the head of the for loop of build_params; "done"; "failed"
    station,        \* the loop variable of build_params: the station read last
    current_node,   \* build_params' counter of stations
    names_to_nodes, \* build_params' lookup of node names
    params,         \* build_params' parameter dictionary
    connections,    \* build_params' per-class edge lists
    nodes,          \* history: the value of node (parse_station's result) of every folded station
    matrices,       \* build_params' matrices dictionary
    returned,       \* whether build_params has returned params
    error           \* the exception that ended build_params, if any

vars == <<pc, station, current_node, names_to_nodes, params, connections,
          nodes, matrices, returned, error>>

(***************************************************************************)
(* Bounds of the inputs.                                                   *)
(***************************************************************************)
MaxCustomers == 1
MaxTargets == 2

Range(s) == {s[i] : i \in DOMAIN s}
SeqsUpTo(S, n) == UNION {[1..k -> S] : k \in 0..n}

(***************************************************************************)
(* Python values.                                                          *)
(***************************************************************************)
EmptyDict == [k \in {} |-> <<>>]
Raise(exc, msg, arg) == [ok |-> FALSE, exc |-> exc, msg |-> msg, arg |-> arg]
Return(v) == [ok |-> TRUE, val |-> v]
NoError == [exc |-> "", msg |-> "", arg |-> ""]
ErrorOf(r) == [exc |-> r.exc, msg |-> r.msg, arg |-> r.arg]

UnsupportedMsg == "Unsupported distribution %s"
ArgCountMsg == "%s distribution supports %i argument(s) (%i given)"
FloatMsg == "could not convert string to float"
OverflowMsg == "Total probabilty cannot exceed 1 for any customer class (Issue in node: %s)"
DuplicateMsg == "A node with the name %s has already been defined! Please use unique node names"

\* float(a) on the tokens of the model: a token outside the table is not a number.
FloatOf == ("1.0" :> 1) @@ ("2.0" :> 2) @@ ("5.0" :> 5)

\* 1.0 in quarters
ProbOne == 4

NoArrivals == [dist |-> "NoArrivals", args |-> <<>>]
ClassKey(n) == <<"Class", n>>

distributions ==
    [Exponential |-> 1, Uniform |-> 2, Deterministic |-> 1, Triangular |-> 3,
     Gamma |-> 2, Lognormal |-> 2, Weibull |-> 1, NoArrivals |-> 0]

(***************************************************************************)
(* parse_distribution                                                      *)
(***************************************************************************)
parse_distribution(s) ==
    LET dist == Head(s)
        args == Tail(s)
    IN  IF dist \notin DOMAIN distributions
          THEN Raise("ValueError", UnsupportedMsg, dist)
        ELSE IF Len(args) # distributions[dist]
          THEN Raise("ValueError", ArgCountMsg, dist)
        ELSE IF \E i \in DOMAIN args : args[i] \notin DOMAIN FloatOf
          THEN Raise("ValueError", FloatMsg, dist)
        ELSE IF dist = "NoArrivals"
          THEN Return(NoArrivals)
        ELSE Return([dist |-> dist, args |-> [i \in DOMAIN args |-> FloatOf[args[i]]]])

(***************************************************************************)
(* parse_connections                                                       *)
(***************************************************************************)
RECURSIVE total_prob_loop(_, _, _)
total_prob_loop(conns, i, total_prob) ==
    IF i > Len(conns) THEN total_prob
    ELSE total_prob_loop(conns, i + 1, total_prob + conns[i].prob)

parse_connections_ge(conns, current_name) ==
    LET total_prob == total_prob_loop(conns, 1, 0)
        connect == [i \in DOMAIN conns |-> <<current_name, conns[i].target, conns[i].prob>>]
    IN  IF total_prob >= ProbOne
          THEN Raise("ValueError", OverflowMsg, current_name)
          ELSE Return(connect)

parse_connections(conns, current_name) ==
    LET total_prob == total_prob_loop(conns, 1, 0)
        connect == [i \in DOMAIN conns |-> <<current_name, conns[i].target, conns[i].prob>>]
    IN  IF total_prob > ProbOne
          THEN Raise("ValueError", OverflowMsg, current_name)
          ELSE Return(connect)

(***************************************************************************)
(* parse_customers                                                         *)
(***************************************************************************)
\* lines 68-71: the arrival distribution, any exception replaced by 'NoArrivals'
arrival_of(customer) ==
    IF "dist" \notin DOMAIN customer THEN NoArrivals
    ELSE LET r == parse_distribution(customer.dist)
         IN  IF r.ok THEN r.val ELSE NoArrivals

\* line 73 with the try/except of lines 68-71 around it
service_of_defaulted(customer) ==
    IF "service" \notin DOMAIN customer THEN Return(NoArrivals)
    ELSE LET r == parse_distribution(customer.service)
         IN  IF r.ok THEN r ELSE Return(NoArrivals)

\* line 73: the service distribution, every exception propagates
service_of(customer) ==
    IF "service" \notin DOMAIN customer THEN Raise("KeyError", "service", "service")
    ELSE parse_distribution(customer.service)

\* lines 75-78
conns_of(customer, current_name) ==
    IF "connections" \in DOMAIN customer
      THEN parse_connections(customer.connections, current_name)
      ELSE Return(<<>>)

\* dict(zip(keys, values)): a later pair replaces an earlier one with the same key
DictZip(keys, values) ==
    [k \in Range(keys) |->
        values[CHOOSE i \in DOMAIN keys :
                  keys[i] = k /\ \A j \in DOMAIN keys : keys[j] = k => j <= i]]

RECURSIVE customers_loop(_, _, _, _, _, _, _)
customers_loop(customers, current_name, i, keys, dists, serv_dists, conn_lists) ==
    IF i > Len(customers)
      THEN Return([arrival |-> DictZip(keys, dists),
                   service |-> DictZip(keys, serv_dists),
                   connections |-> DictZip(keys, conn_lists)])
    ELSE LET customer == customers[i]
             serv == service_of(customer)
             conns == conns_of(customer, current_name)
         IN  IF ~serv.ok THEN serv
             ELSE IF ~conns.ok THEN conns
             ELSE customers_loop(customers, current_name, i + 1,
                                 Append(keys, ClassKey(customer.class)),
                                 Append(dists, arrival_of(customer)),
                                 Append(serv_dists, serv.val),
                                 Append(conn_lists, conns.val))

parse_customers(customers, current_name) ==
    customers_loop(customers, current_name, 1, <<>>, <<>>, <<>>, <<>>)

(***************************************************************************)
(* parse_station                                                           *)
(***************************************************************************)
parse_station(st) ==
    LET dists == parse_customers(st.customers, st.name)
    IN  IF ~dists.ok THEN dists
        ELSE Return([name |-> st.name,
                     capacity |-> st.capacity,
                     arrivals |-> dists.val.arrival,
                     service |-> dists.val.service,
                     servers |-> st.servers,
                     connections |-> dists.val.connections])

(***************************************************************************)
(* update_distributions                                                    *)
(***************************************************************************)
\* the new value put in front of the placeholders of a new key
update_distributions_front(existing, new, node) ==
    LET merged == [k \in DOMAIN existing \cup DOMAIN new |->
                     IF k \notin DOMAIN new THEN existing[k]
                     ELSE IF k \in DOMAIN existing THEN Append(existing[k], new[k])
                     ELSE <<new[k]>> \o [n \in 1..(node - 1) |-> NoArrivals]]
    IN  [k \in DOMAIN merged |->
            IF Len(merged[k]) # node THEN Append(merged[k], NoArrivals) ELSE merged[k]]

\* the back-fill of lines 129-135 left out
update_distributions_nofill(existing, new, node) ==
    [k \in DOMAIN existing \cup DOMAIN new |->
        IF k \notin DOMAIN new THEN existing[k]
        ELSE Append(IF k \in DOMAIN existing
                      THEN existing[k]
                      ELSE [n \in 1..(node - 1) |-> NoArrivals],
                    new[k])]

update_distributions(existing, new, node) ==
    LET \* lines 111-123
        merged == [k \in DOMAIN existing \cup DOMAIN new |->
                     IF k \notin DOMAIN new THEN existing[k]
                     ELSE Append(IF k \in DOMAIN existing
                                   THEN existing[k]
                                   ELSE [n \in 1..(node - 1) |-> NoArrivals],
                                 new[k])]
        \* lines 129-135
    IN  [k \in DOMAIN merged |->
            IF Len(merged[k]) # node THEN Append(merged[k], NoArrivals) ELSE merged[k]]

(***************************************************************************)
(* update_connections                                                      *)
(***************************************************************************)
\* only classes that have edges are recorded
update_connections_nonempty(existing, new) ==
    [k \in DOMAIN existing \cup {n \in DOMAIN new : Len(new[n]) > 0} |->
        IF k \notin DOMAIN new THEN existing[k]
        ELSE IF k \notin DOMAIN existing THEN new[k]
        ELSE existing[k] \o new[k]]

update_connections(existing, new) ==
    [k \in DOMAIN existing \cup DOMAIN new |->
        IF k \notin DOMAIN new THEN existing[k]
        ELSE IF k \notin DOMAIN existing THEN new[k]
        ELSE existing[k] \o new[k]]

(***************************************************************************)
(* The transition matrix of one class (build_params, lines 212-227)        *)
(***************************************************************************)
\* line 218 raises KeyError on a name that is no key of names_to_nodes
UndefinedNames(c, lookup) ==
    ({c[i][1] : i \in DOMAIN c} \cup {c[i][2] : i \in DOMAIN c}) \ DOMAIN lookup

\* line 218
ToNodeNumbers(c, lookup) ==
    [i \in DOMAIN c |-> <<lookup[c[i][1]], lookup[c[i][2]], c[i][3]>>]

\* DiGraph.add_edges_from: the nodes of the graph in the order they are added,
\* each edge adding its source and then its target when new
RECURSIVE GraphNodes(_, _, _)
GraphNodes(edges, i, acc) ==
    IF i > Len(edges) THEN acc
    ELSE LET withU == IF edges[i][1] \in Range(acc) THEN acc ELSE Append(acc, edges[i][1])
             withV == IF edges[i][2] \in Range(withU) THEN withU ELSE Append(withU, edges[i][2])
         IN  GraphNodes(edges, i + 1, withV)

\* DiGraph holds one edge per ordered pair: adding it again replaces its weight
HasEdge(edges, u, v) == \E i \in DOMAIN edges : edges[i][1] = u /\ edges[i][2] = v
EdgeWeight(edges, u, v) ==
    LET last == CHOOSE i \in DOMAIN edges :
                   /\ edges[i][1] = u /\ edges[i][2] = v
                   /\ \A j \in DOMAIN edges : (edges[j][1] = u /\ edges[j][2] = v) => j <= i
    IN  edges[last][3]

\* nx.to_numpy_matrix(DG).tolist(): rows and columns are the nodes of the graph
to_numpy_matrix(edges) ==
    LET nodelist == GraphNodes(edges, 1, <<>>)
    IN  [i \in DOMAIN nodelist |-> [j \in DOMAIN nodelist |->
            IF HasEdge(edges, nodelist[i], nodelist[j])
              THEN EdgeWeight(edges, nodelist[i], nodelist[j])
              ELSE 0]]

TransitionMatrix(c, lookup, num_nodes) ==
    IF Len(c) > 0
      THEN to_numpy_matrix(ToNodeNumbers(c, lookup))
      ELSE [j \in 1..num_nodes |-> [i \in 1..num_nodes |-> 0]]

(***************************************************************************)
(* build_params                                                            *)
(***************************************************************************)
NoStation == [name |-> "", capacity |-> 0, servers |-> 0, customers |-> <<>>]

Init ==
    /\ pc = "loop"
    /\ station = NoStation
    /\ current_node = 0
    /\ names_to_nodes = EmptyDict
    /\ params = [Arrival_distributions |-> EmptyDict,
                 Number_of_servers |-> <<>>,
                 Queue_capacities |-> <<>>,
                 Service_distributions |-> EmptyDict]
    /\ connections = EmptyDict
    /\ nodes = <<>>
    /\ matrices = EmptyDict
    /\ returned = FALSE
    /\ error = NoError

Fail(e) ==
    /\ pc' = "failed"
    /\ error' = e
    /\ UNCHANGED <<names_to_nodes, params, connections, nodes, matrices, returned>>

\* line 187
NameTaken_never(name, lookup) == FALSE

NameTaken(name, lookup) == name \in DOMAIN lookup

\* One iteration of the for loop of lines 180-203 on the next station of the list.
ProcessStation(st) ==
    /\ pc = "loop"
    /\ station' = st
    /\ current_node' = current_node + 1
    /\ LET parsed == parse_station(st)
           node == parsed.val
       IN  IF ~parsed.ok
             THEN Fail(ErrorOf(parsed))
           ELSE IF NameTaken(node.name, names_to_nodes)
             THEN Fail([exc |-> "ValueError", msg |-> DuplicateMsg, arg |-> node.name])
           ELSE /\ names_to_nodes' = (node.name :> current_node') @@ names_to_nodes
                /\ params' =
                     [Arrival_distributions |->
                          update_distributions(params.Arrival_distributions,
                                               node.arrivals, current_node'),
                      Number_of_servers |-> Append(params.Number_of_servers, node.servers),
                      Queue_capacities |-> Append(params.Queue_capacities, node.capacity),
                      Service_distributions |->
                          update_distributions(params.Service_distributions,
                                               node.service, current_node')]
                /\ connections' = update_connections(connections, node.connections)
                /\ nodes' = Append(nodes, node)
                /\ UNCHANGED <<pc, matrices, returned, error>>

\* The station list is exhausted: lines 206-232 build the matrices and return.
BuildMatrices ==
    /\ pc = "loop"
    /\ LET undefined == UNION {UndefinedNames(connections[k], names_to_nodes) :
                                  k \in DOMAIN connections}
       IN  IF undefined # {}
             THEN /\ pc' = "failed"
                  /\ error' = [exc |-> "KeyError", msg |-> "names_to_nodes",
                               arg |-> CHOOSE n \in undefined : TRUE]
                  /\ UNCHANGED <<matrices, returned>>
             ELSE /\ pc' = "done"
                  /\ matrices' = [k \in DOMAIN connections |->
                                    TransitionMatrix(connections[k], names_to_nodes,
                                                     current_node)]
                  /\ returned' = TRUE
                  /\ error' = error
    /\ UNCHANGED <<station, current_node, names_to_nodes, params, connections, nodes>>

\* What build_params returns.
Result ==
    [Arrival_distributions |-> params.Arrival_distributions,
     Number_of_nodes |-> current_node,
     Number_of_servers |-> params.Number_of_servers,
     Queue_capacities |-> params.Queue_capacities,
     Service_distributions |-> params.Service_distributions,
     Transition_matrices |-> matrices]

(***************************************************************************)
(* The station lists of the specifications.  A list with more stations     *)
(* than there are names repeats a name, so lists are cut at that length.   *)
(***************************************************************************)
StationOf(name, customers) ==
    [name |-> name, capacity |-> 10, servers |-> 1, customers |-> customers]

Build(names, customers) ==
    \/ /\ current_node < Cardinality(names)
       /\ \E n \in names, cs \in SeqsUpTo(customers, MaxCustomers) :
             ProcessStation(StationOf(n, cs))
    \/ BuildMatrices

\* distribution strings
ExpSpec == <<"Exponential", "2.0">>
DetSpec == <<"Deterministic", "1.0">>
UnknownNameSpec == <<"Normal", "1.0">>
WrongCountSpec == <<"Uniform", "1.0">>
NonNumericSpec == <<"Exponential", "fast">>
BadSpecs == {UnknownNameSpec, WrongCountSpec, NonNumericSpec}

\* Spec: three stations, two classes, arrival present or not, service good or bad
AggCustomers ==
    {[class |-> c, service |-> s] : c \in {1, 2}, s \in {DetSpec, UnknownNameSpec}}
    \cup {[class |-> c, dist |-> ExpSpec, service |-> s] :
             c \in {1, 2}, s \in {DetSpec, UnknownNameSpec}}
Next == Build({"A", "B", "C"}, AggCustomers)
Spec == Init /\ [][Next]_vars


\* SpecParse: two stations, every kind of arrival and service string, no routing
ArrivalStrings == {ExpSpec} \cup BadSpecs
ServiceStrings == {DetSpec} \cup BadSpecs
ParseCustomers ==
    {[class |-> c] : c \in {1, 2}}
    \cup {[class |-> c, dist |-> d] : c \in {1, 2}, d \in ArrivalStrings}
    \cup {[class |-> c, service |-> s] : c \in {1, 2}, s \in ServiceStrings}
    \cup {[class |-> c, dist |-> d, service |-> s] :
             c \in {1, 2}, d \in ArrivalStrings, s \in ServiceStrings}
NextParse == Build({"A", "B"}, ParseCustomers)
SpecParse == Init /\ [][NextParse]_vars

\* SpecConn: two stations, two classes, routing lists to station B that stay
\* below, reach or exceed 1.0
ConnTargets == {[target |-> "B", prob |-> p] : p \in {1, 3}}
ConnCustomers ==
    {[class |-> c, dist |-> ExpSpec, service |-> DetSpec] : c \in {1, 2}}
    \cup {[class |-> c, dist |-> ExpSpec, service |-> DetSpec, connections |-> t] :
             c \in {1, 2}, t \in SeqsUpTo(ConnTargets, MaxTargets)}
NextConn == Build({"A", "B"}, ConnCustomers)
SpecConn == Init /\ [][NextConn]_vars

\* SpecRouting: two stations, class 1 routed to any station, class 2 never routed
RoutingTargets == {[target |-> n, prob |-> p] : n \in {"A", "B"}, p \in {1, 2}}
RoutingCustomers ==
    {[class |-> c, dist |-> ExpSpec, service |-> DetSpec] : c \in {1, 2}}
    \cup {[class |-> 1, dist |-> ExpSpec, service |-> DetSpec, connections |-> t] :
             t \in SeqsUpTo(RoutingTargets, MaxTargets)}
NextRouting == Build({"A", "B"}, RoutingCustomers)
SpecRouting == Init /\ [][NextRouting]_vars

\* SpecSigned: as SpecRouting, with any number as a routing probability
SignedTargets == {[target |-> n, prob |-> p] : n \in {"A", "B"}, p \in {-1, 0, 3}}
SignedCustomers ==
    {[class |-> c, dist |-> ExpSpec, service |-> DetSpec] : c \in {1, 2}}
    \cup {[class |-> 1, dist |-> ExpSpec, service |-> DetSpec, connections |-> t] :
             t \in SeqsUpTo(SignedTargets, MaxTargets)}
NextSigned == Build({"A", "B"}, SignedCustomers)
SpecSigned == Init /\ [][NextSigned]_vars

(***************************************************************************)
(* Vocabulary of the properties.                                           *)
(***************************************************************************)
Arrivals == Result.Arrival_distributions
Services == Result.Service_distributions

\* the class keys defined at one station at least
AllKeys == UNION {DOMAIN nodes[k].arrivals : k \in DOMAIN nodes}

\* what station k supplied for class c in its mapping m, NoArrivals when nothing
Supplied(m, c) == IF c \in DOMAIN m THEN m[c] ELSE NoArrivals

\* the station read last repeats the name of an earlier station
IsRepeat ==
    /\ current_node > 0
    /\ \E k \in DOMAIN nodes : k < current_node /\ nodes[k].name = station.name

\* the station read last has been folded into params
Folded == current_node > 0 /\ Len(nodes) = current_node

\* the reasons a distribution string fails to parse
UnknownName(s) == Head(s) \notin DOMAIN distributions
WrongCount(s) == ~UnknownName(s) /\ Len(s) - 1 # distributions[Head(s)]
NonNumeric(s) == \E i \in 2..Len(s) : s[i] \notin {"1.0", "2.0", "5.0"}
BadField(customer, field) ==
    \/ field \notin DOMAIN customer
    \/ UnknownName(customer[field])
    \/ WrongCount(customer[field])
    \/ NonNumeric(customer[field])

RECURSIVE SumProbs(_)
SumProbs(targets) ==
    IF targets = <<>> THEN 0 ELSE Head(targets).prob + SumProbs(Tail(targets))
Overflows(customer) ==
    "connections" \in DOMAIN customer /\ SumProbs(customer.connections) > ProbOne
EdgeRecords(targets, name) ==
    [i \in 1..Len(targets) |-> <<name, targets[i].target, targets[i].prob>>]

\* the entry of a station's customer list that decides the class of entry i
IsLastOfClass(cs, i) == \A j \in DOMAIN cs : cs[j].class = cs[i].class => j <= i

OverflowError == [exc |-> "ValueError", msg |-> OverflowMsg, arg |-> station.name]
DuplicateError == [exc |-> "ValueError", msg |-> DuplicateMsg, arg |-> station.name]

\* the 1-based position of a station name in declaration order
NodeIndex(name) == CHOOSE k \in DOMAIN nodes : nodes[k].name = name
\* the edge records of class c from node u to node v
Records(c, u, v) ==
    {i \in DOMAIN connections[c] :
        /\ NodeIndex(connections[c][i][1]) = u
        /\ NodeIndex(connections[c][i][2]) = v}
RECURSIVE SumWeights(_, _)
SumWeights(c, is) ==
    IF is = {} THEN 0
    ELSE LET i == CHOOSE x \in is : TRUE
         IN  connections[c][i][3] + SumWeights(c, is \ {i})

(***************************************************************************)
(* C1: after every station folded in, each per-class sequence of           *)
(* Arrival_distributions and Service_distributions is as long as the       *)
(* number of stations processed so far.                                    *)
(***************************************************************************)
C1_LengthIsStationIndex ==
    pc \in {"loop", "done"} =>
        /\ \A c \in DOMAIN params.Arrival_distributions :
              Len(params.Arrival_distributions[c]) = current_node
        /\ \A c \in DOMAIN params.Service_distributions :
              Len(params.Service_distributions[c]) = current_node

\* three stations folded, one class missing at the third, another at the first
C1_Witness ==
    /\ pc = "loop" /\ current_node = 3
    /\ \E c1, c2 \in DOMAIN params.Arrival_distributions :
          /\ c1 \in DOMAIN nodes[1].arrivals /\ c1 \notin DOMAIN nodes[3].arrivals
          /\ c2 \notin DOMAIN nodes[1].arrivals /\ c2 \in DOMAIN nodes[3].arrivals

(***************************************************************************)
(* C2: in the returned model, entry k of a class's arrival (service)       *)
(* sequence is what station k supplied for the class, and NoArrivals when  *)
(* station k does not define the class.                                    *)
(***************************************************************************)
C2_EntryIsStationsOwn ==
    returned =>
        \A c \in AllKeys, k \in 1..current_node :
            /\ c \in DOMAIN Arrivals /\ k \in DOMAIN Arrivals[c]
            /\ Arrivals[c][k] = Supplied(nodes[k].arrivals, c)
            /\ c \in DOMAIN Services /\ k \in DOMAIN Services[c]
            /\ Services[c][k] = Supplied(nodes[k].service, c)

\* a class first seen at station 3, and a class with an arrival at station 1
\* that is missing at station 2
C2_Witness ==
    /\ returned /\ current_node = 3
    /\ \E c \in AllKeys :
          /\ c \notin DOMAIN nodes[1].arrivals /\ c \notin DOMAIN nodes[2].arrivals
          /\ Services[c] = <<NoArrivals, NoArrivals, nodes[3].service[c]>>
    /\ \E c \in DOMAIN nodes[1].arrivals :
          /\ c \notin DOMAIN nodes[2].arrivals
          /\ nodes[1].arrivals[c] # NoArrivals
          /\ Arrivals[c][2] = NoArrivals

(***************************************************************************)
(* C3: every transition matrix of a returned model has exactly N rows and  *)
(* N columns, N the number of stations.                                    *)
(***************************************************************************)
C3_MatrixIsNByN ==
    returned =>
        \A c \in DOMAIN matrices :
            /\ Len(matrices[c]) = current_node
            /\ \A i \in DOMAIN matrices[c] : Len(matrices[c][i]) = current_node

(***************************************************************************)
(* C4: entry [i][j] of a class's matrix is the probability of the class's  *)
(* edge from node i to node j (nodes numbered in declaration order) and 0  *)
(* when there is no such edge.  Stated for the entries the matrix has and  *)
(* the node pairs with at most one edge record.                            *)
(***************************************************************************)
C4_EntryIsEdgeProbability ==
    returned =>
        \A c \in DOMAIN matrices :
            \A i \in DOMAIN matrices[c] : \A j \in DOMAIN matrices[c][i] :
                Cardinality(Records(c, i, j)) <= 1 =>
                    matrices[c][i][j] = SumWeights(c, Records(c, i, j))

(***************************************************************************)
(* C5: when a class has several edge records for one ordered pair of       *)
(* stations, the matrix entry of the pair is the sum of their              *)
(* probabilities.  Stated for the matrices whose rows and columns are the  *)
(* N nodes in declaration order.                                           *)
(***************************************************************************)
C5_RepeatedEdgesAreSummed ==
    returned =>
        \A c \in DOMAIN matrices :
            GraphNodes(ToNodeNumbers(connections[c], names_to_nodes), 1, <<>>)
                = [n \in 1..current_node |-> n]
            => \A u, v \in 1..current_node :
                  Cardinality(Records(c, u, v)) >= 2 =>
                      matrices[c][u][v] = SumWeights(c, Records(c, u, v))

(***************************************************************************)
(* C6: in a returned model, Arrival_distributions, Service_distributions   *)
(* and Transition_matrices all have exactly the class keys defined at one  *)
(* station at least.                                                       *)
(***************************************************************************)
C6_SameKeysEverywhere ==
    returned =>
        /\ DOMAIN Arrivals = AllKeys
        /\ DOMAIN Services = AllKeys
        /\ DOMAIN Result.Transition_matrices = AllKeys

\* a class defined at one of two stations and never routed, beside a routed class
C6_Witness ==
    /\ returned /\ current_node = 2
    /\ \E c1, c2 \in AllKeys :
          /\ c1 \in DOMAIN nodes[2].arrivals /\ c1 \notin DOMAIN nodes[1].arrivals
          /\ connections[c1] = <<>>
          /\ c1 \in DOMAIN matrices
          /\ connections[c2] # <<>>

(***************************************************************************)
(* C7: parse_connections raises the overflow error naming the current      *)
(* station exactly when the probabilities of the list sum to more than     *)
(* 1.0, and otherwise returns one edge record per target in input order;   *)
(* an overflow at a station ends the build with nothing returned.          *)
(***************************************************************************)
C7_OverflowExactlyAboveOne ==
    current_node > 0 =>
        LET cs == station.customers
        IN  /\ \A i \in DOMAIN cs : "connections" \in DOMAIN cs[i] =>
                  LET r == parse_connections(cs[i].connections, station.name)
                  IN  IF SumProbs(cs[i].connections) > ProbOne
                        THEN ~r.ok /\ ErrorOf(r) = OverflowError
                        ELSE r.ok /\ r.val = EdgeRecords(cs[i].connections, station.name)
            /\ (/\ \E i \in DOMAIN cs : Overflows(cs[i])
                /\ \A i \in DOMAIN cs : ~BadField(cs[i], "service"))
               => /\ pc = "failed" /\ error = OverflowError
                  /\ ~returned /\ matrices = EmptyDict
            /\ (pc = "failed" /\ error.msg = OverflowMsg)
               => /\ \E i \in DOMAIN cs : Overflows(cs[i])
                  /\ error = OverflowError
            /\ (Folded /\ ~IsRepeat) =>
                  \A i \in DOMAIN cs :
                     ("connections" \in DOMAIN cs[i] /\ IsLastOfClass(cs, i)) =>
                        nodes[current_node].connections[ClassKey(cs[i].class)]
                            = EdgeRecords(cs[i].connections, station.name)

\* the second station overflows after the first was accepted with exactly 1.0
C7_Witness ==
    /\ current_node = 2 /\ pc = "failed" /\ error = OverflowError
    /\ \E c \in DOMAIN nodes[1].connections :
          /\ Len(nodes[1].connections[c]) = 2
          /\ nodes[1].connections[c][1][3] + nodes[1].connections[c][2][3] = ProbOne

(***************************************************************************)
(* C8 as stated: a station that repeats an earlier name makes the build    *)
(* fail with the duplicate-name error, whatever else the station holds.    *)
(***************************************************************************)
C8_DuplicateAlwaysReported ==
    IsRepeat =>
        /\ pc = "failed" /\ error = DuplicateError
        /\ ~returned /\ matrices = EmptyDict

\* what decides whether parse_station returns on the station read last
StationParses ==
    \A i \in DOMAIN station.customers :
        /\ ~BadField(station.customers[i], "service")
        /\ ~Overflows(station.customers[i])

(***************************************************************************)
(* C8 amended: a station that repeats an earlier name makes the build fail *)
(* at that station with no matrix built and nothing returned; the error is *)
(* the duplicate-name error when the station's own customer entries parse, *)
(* and the station's parse error otherwise.                                *)
(***************************************************************************)
C8_DuplicateAfterParse ==
    IsRepeat =>
        /\ pc = "failed" /\ ~returned /\ matrices = EmptyDict
        /\ Len(nodes) = current_node - 1
        /\ IF StationParses
             THEN error = DuplicateError
             ELSE error.msg \in {UnsupportedMsg, ArgCountMsg, FloatMsg, OverflowMsg, "service"}

\* the third station repeats a name and holds a customer entry that parses
C8_Witness ==
    /\ IsRepeat /\ current_node = 3 /\ error = DuplicateError
    /\ Len(station.customers) > 0

(***************************************************************************)
(* C9: a missing or unparsable arrival string becomes NoArrivals and the   *)
(* build goes on; a missing or unparsable service string always ends the   *)
(* build.                                                                  *)
(***************************************************************************)
C9_ArrivalDefaultedServiceFatal ==
    current_node > 0 =>
        LET cs == station.customers
        IN  /\ (\E i \in DOMAIN cs : BadField(cs[i], "service"))
               => /\ pc = "failed" /\ ~returned /\ ~Folded
                  /\ error.msg \in {UnsupportedMsg, ArgCountMsg, FloatMsg, "service"}
            /\ (/\ \A i \in DOMAIN cs : ~BadField(cs[i], "service") /\ ~Overflows(cs[i])
                /\ ~IsRepeat)
               => /\ Folded
                  /\ error.msg \notin {UnsupportedMsg, ArgCountMsg, FloatMsg, "service"}
                  /\ \A i \in DOMAIN cs : IsLastOfClass(cs, i) =>
                        /\ nodes[current_node].arrivals[ClassKey(cs[i].class)]
                             = IF BadField(cs[i], "dist")
                                 THEN NoArrivals
                                 ELSE parse_distribution(cs[i].dist).val
                        /\ nodes[current_node].service[ClassKey(cs[i].class)]
                             = parse_distribution(cs[i].service).val

\* the second station is folded with NoArrivals where its arrival string has a
\* non-numeric argument, and the build returns
C9_Witness ==
    /\ returned /\ current_node = 2
    /\ \E i \in DOMAIN station.customers :
          /\ "dist" \in DOMAIN station.customers[i]
          /\ NonNumeric(station.customers[i].dist)
          /\ Arrivals[ClassKey(station.customers[i].class)][2] = NoArrivals

(***************************************************************************)
(* C10: every entry of every transition matrix of a returned model is at   *)
(* least 0.                                                                *)
(***************************************************************************)
C10_NoNegativeEntry ==
    returned =>
        \A c \in DOMAIN matrices :
            \A i \in DOMAIN matrices[c] : \A j \in DOMAIN matrices[c][i] :
                matrices[c][i][j] >= 0

====
